---- MODULE Spec2Model ----
(***************************************************************************)
(* Column video mixer (main.py): two VideoDecoder threads emit frames that *)
(* the GUI thread pushes into two bounded queues; a MixingThread pops one  *)
(* frame from each queue, interleaves their columns and emits the result   *)
(* to the GUI thread; MainWindow starts and stops the three threads.       *)
(***************************************************************************)
EXTENDS Integers, Sequences, FiniteSets, TLC

\* ------------------------------------------------------------------ bounds
\* thread objects that can exist at a time (a finished, unreferenced one is reused)
MaxThreads == 6
\* frames the decoder threads may emit in one run of the full model
MaxEmit == 2
\* frames the decoder threads may emit in one run of the single-session model
MaxFlowEmit == 12
\* frames pushed by the channel harness
MaxPush == 12
\* pixel frames of the mix_columns harness
MaxH == 2
MaxW == 3
MaxCh == 2
MaxVal == 1
MaxCells == 4

\* ------------------------------------------------------- program constants
\* Queue(maxsize=10)
QueueMax == 10

NoPath == ""

\* ------------------------------------------------------------ media files
\* The files a user can pick: "a" and "z" have the same frame size, "b" a
\* different one, "z" reports frame rate 0, "missing" cannot be opened.
Paths == {"a", "b", "s", "z", "gone", "missing"}

Openable(p) == p # "missing"

FrameCount(p) == IF p = "a" THEN 2 ELSE IF p = "missing" THEN 0 ELSE 1

Fps(p) == IF p \in {"z", "missing"} THEN 0 ELSE 30

Shape(p) == IF p = "b" THEN <<8, 8, 3>> ELSE <<4, 4, 3>>

\* --------------------------------------------------------- pixel frames
\* ndarray of shape (h, w, ch): px[r, c, k], indices from 0.
Index(h, w, ch) == (0 .. h - 1) \X (0 .. w - 1) \X (0 .. ch - 1)

Shapes ==
    {s \in (1 .. MaxH) \X (1 .. MaxW) \X (1 .. MaxCh) : s[1] * s[2] * s[3] <= MaxCells}

PixelFrames(s) ==
    {[shape |-> s, px |-> p] : p \in [Index(s[1], s[2], s[3]) -> 0 .. MaxVal]}

\* result[:, 1::2] = f2[:, 1::2]: the odd columns taken from f2 instead
mix_columns_odd(f1, f2) ==
    [ret |-> [shape |-> f1.shape,
              px |-> [i \in DOMAIN f1.px |->
                        IF i[2] % 2 = 1 THEN f2.px[i] ELSE f1.px[i]]],
     f1 |-> f1]

\* MixingThread.mix_columns: result = f1.copy(); result[:, ::2] = f2[:, ::2].
\* ret is the returned array, f1 the first argument after the call.
mix_columns(f1, f2) ==
    [ret |-> [shape |-> f1.shape,
              px |-> [i \in DOMAIN f1.px |->
                        IF i[2] % 2 = 0 THEN f2.px[i] ELSE f1.px[i]]],
     f1 |-> f1]

\* ------------------------------------------------------------- channels
\* q.put(f): blocks while the queue is full
put_returns_blocking(q) == Len(q) < QueueMax

\* q.put_nowait(f) always returns at once (normally or by raising Full)
put_returns(q) == TRUE

\* safe_put that makes room by discarding the oldest frame
safe_put_drop_oldest(q, f) ==
    IF Len(q) >= QueueMax THEN Append(Tail(q), f) ELSE Append(q, f)

\* MainWindow.safe_put: put_nowait, a Full exception is swallowed
safe_put(q, f) ==
    IF Len(q) >= QueueMax THEN q ELSE Append(q, f)

\* q.get(timeout=1) on a non-empty queue: the oldest item, and the queue after
\* a get that reads the oldest item and leaves it in the queue
queue_peek(q) == [item |-> Head(q), q |-> q]

\* q.get(timeout=1) returning: the oldest item, and the queue without it
queue_get(q) == [item |-> Head(q), q |-> Tail(q)]

\* get() with no timeout never raises Empty, it waits for an item
get_waits_forever(q) == FALSE

\* q.get(timeout=1) raises Empty: no item came within the second
get_raises_empty(q) == q = <<>>

\* ------------------------------------------------------------------ state
VARIABLES
    path1, path2,               \* MainWindow.path1, path2
    decoder1, decoder2, mixer,  \* MainWindow references: a thread id, 0 = None
    q1, q2,                     \* MainWindow.q1, q2
    label,                      \* the image last given to label.setPixmap
    mpc, mop,                   \* GUI thread: position, handler being run
    events,                     \* queued signal deliveries posted to the GUI thread
    tkind,                      \* per thread: 1, 2 = VideoDecoder of video 1, 2; 3 = MixingThread
    tpc, trun, tpath,           \* per thread: position, self.running, self.path
    cap, held,                  \* per thread: capture, frame in hand
    nemit,                      \* frames emitted so far by all decoders
    outcome,                    \* per thread: how its last loop iteration ended
    mA, mB, mOut,               \* mix_columns harness: the arguments and the result
    hpush, hacc, hpop, hfirst,  \* channel harness: pushes, accepted, popped, pushes before 1st pop
    taken1, taken2, nmixed      \* frames the mixers took from q1, from q2; composites emitted

guivars == <<path1, path2, decoder1, decoder2, mixer, label, mpc, mop>>
thrvars == <<tkind, tpc, trun, tpath, cap, held, nemit, outcome>>
mixvars == <<mA, mB, mOut>>
chanvars == <<hpush, hacc, hpop, hfirst>>
cntvars == <<taken1, taken2, nmixed>>
vars == <<guivars, thrvars, q1, q2, events, mixvars, chanvars, cntvars>>

\* thread objects
TIDs == 1 .. MaxThreads
Kind(t) == tkind[t]

NoFrame == [src |-> NoPath, idx |-> 0]
NoImage == [a |-> NoFrame, b |-> NoFrame]
NoCap == [open |-> FALSE, pos |-> 0]
NoPixels == [shape |-> <<0, 0, 0>>, px |-> <<>>]

\* QThread.isRunning: started and run() not yet returned
Alive(t) == tpc[t] \notin {"new", "done"}

InitGui ==
    /\ path1 = NoPath /\ path2 = NoPath
    /\ decoder1 = 0 /\ decoder2 = 0 /\ mixer = 0
    /\ q1 = <<>> /\ q2 = <<>>
    /\ label = NoImage
    /\ mpc = "idle" /\ mop = "none"
    /\ events = <<>>

InitThreads ==
    /\ tkind = [t \in TIDs |-> 0]
    /\ tpc = [t \in TIDs |-> "new"]
    /\ trun = [t \in TIDs |-> FALSE]
    /\ tpath = [t \in TIDs |-> NoPath]
    /\ cap = [t \in TIDs |-> NoCap]
    /\ held = [t \in TIDs |-> NoFrame]
    /\ nemit = 0
    /\ outcome = [t \in TIDs |-> "none"]

InitMixIdle == mA = NoPixels /\ mB = NoPixels /\ mOut = NoPixels

InitChanIdle == hpush = 0 /\ hacc = <<>> /\ hpop = <<>> /\ hfirst = 0

InitCount == taken1 = 0 /\ taken2 = 0 /\ nmixed = 0

\* MainWindow.__init__
Init == InitGui /\ InitThreads /\ InitMixIdle /\ InitChanIdle /\ InitCount

\* ------------------------------------------------------- VideoDecoder.run
\* cv2.VideoCapture(path) / cap.open(path)
cap_open(p) == [open |-> Openable(p), pos |-> 0]

\* cap.read(): ret, the frame index read, and the capture afterwards
cap_read(c, p) ==
    IF c.open /\ c.pos < FrameCount(p)
    THEN [ret |-> TRUE, idx |-> c.pos, cap |-> [c EXCEPT !.pos = c.pos + 1]]
    ELSE [ret |-> FALSE, idx |-> 0, cap |-> c]

\* cap.open(self.path) of the restart: "gone" is a file that was there when
\* the decoder started and is no longer there when it is opened again
Reopenable(p) == Openable(p) /\ p # "gone"

cap_reopen(p) == [open |-> Reopenable(p), pos |-> 0]

\* lines 28-32: cap.set(POS_FRAMES, 0); cap.open(path); ret, frame = cap.read();
\* continue. The frame read here is not emitted: the loop starts over.
restart(c, p) ==
    LET r == cap_read(cap_reopen(p), p)
    IN  [ret |-> FALSE, idx |-> 0, cap |-> r.cap]

\* cap = cv2.VideoCapture(self.path); fps = cap.get(CAP_PROP_FPS)
DecOpen(t) ==
    /\ Kind(t) \in {1, 2} /\ tpc[t] = "run"
    /\ cap' = [cap EXCEPT ![t] = cap_open(tpath[t])]
    /\ tpc' = [tpc EXCEPT ![t] = "loop"]
    /\ UNCHANGED <<guivars, q1, q2, events, tkind, trun, tpath, held, nemit,
                   outcome, mixvars, chanvars, cntvars>>

\* while not (self.running and cap.isOpened()): cap.release(), run returns
DecExit(t) ==
    /\ Kind(t) \in {1, 2} /\ tpc[t] = "loop"
    /\ ~(trun[t] /\ cap[t].open)
    /\ tpc' = [tpc EXCEPT ![t] = "done"]
    /\ cap' = [cap EXCEPT ![t] = NoCap]
    /\ held' = [held EXCEPT ![t] = NoFrame]
    /\ outcome' = [outcome EXCEPT ![t] = "returned"]
    /\ UNCHANGED <<guivars, q1, q2, events, tkind, trun, tpath, nemit, mixvars, chanvars, cntvars>>

\* one pass of the loop body up to the emit: read, and on a failed read restart
DecRead(t, budget) ==
    /\ Kind(t) \in {1, 2} /\ tpc[t] = "loop"
    /\ trun[t] /\ cap[t].open
    /\ nemit < budget
    /\ LET r == cap_read(cap[t], tpath[t])
           s == IF r.ret THEN r ELSE restart(r.cap, tpath[t])
       IN  /\ cap' = [cap EXCEPT ![t] = s.cap]
           /\ IF s.ret
              THEN /\ held' = [held EXCEPT ![t] =
                                 [src |-> tpath[t], idx |-> s.idx]]
                   /\ tpc' = [tpc EXCEPT ![t] = "emit"]
                   /\ UNCHANGED outcome
              ELSE /\ held' = [held EXCEPT ![t] = NoFrame]
                   /\ tpc' = [tpc EXCEPT ![t] = "loop"]
                   /\ outcome' = [outcome EXCEPT ![t] = "restart"]
    /\ UNCHANGED <<guivars, q1, q2, events, tkind, trun, tpath, nemit, mixvars, chanvars, cntvars>>

\* self.frame_ready.emit(frame): the connected lambda is queued to the GUI
\* thread; then time.sleep(1/fps), which raises ZeroDivisionError when fps is 0
\* and ends run() without cap.release()
DecEmit(t) ==
    /\ Kind(t) \in {1, 2} /\ tpc[t] = "emit"
    /\ events' = Append(events, [ch |-> Kind(t), a |-> held[t], b |-> NoFrame])
    /\ nemit' = nemit + 1
    /\ held' = [held EXCEPT ![t] = NoFrame]
    /\ IF Fps(tpath[t]) = 0
       THEN /\ tpc' = [tpc EXCEPT ![t] = "done"]
            /\ cap' = [cap EXCEPT ![t] = NoCap]
            /\ outcome' = [outcome EXCEPT ![t] = "raised"]
       ELSE /\ tpc' = [tpc EXCEPT ![t] = "loop"]
            /\ outcome' = [outcome EXCEPT ![t] = "none"]
            /\ UNCHANGED cap
    /\ UNCHANGED <<guivars, q1, q2, tkind, trun, tpath, mixvars, chanvars, cntvars>>

\* ------------------------------------------------------- MixingThread.run
\* the shape test left out
shape_unchecked(f1, f2) == FALSE

\* f1.shape != f2.shape
shape_differs(f1, f2) == Shape(f1.src) # Shape(f2.src)

\* while self.running: false, run returns
MixExit(t) ==
    /\ Kind(t) = 3 /\ tpc[t] = "run"
    /\ ~trun[t]
    /\ tpc' = [tpc EXCEPT ![t] = "done"]
    /\ outcome' = [outcome EXCEPT ![t] = "returned"]
    /\ UNCHANGED <<guivars, q1, q2, events, tkind, trun, tpath, cap, held, nemit,
                   mixvars, chanvars, cntvars>>

\* while self.running: true, enter the try block
MixLoop(t) ==
    /\ Kind(t) = 3 /\ tpc[t] = "run"
    /\ trun[t]
    /\ tpc' = [tpc EXCEPT ![t] = "get1"]
    /\ outcome' = [outcome EXCEPT ![t] = "none"]
    /\ UNCHANGED <<guivars, q1, q2, events, tkind, trun, tpath, cap, held, nemit,
                   mixvars, chanvars, cntvars>>

\* a timeout of the first get that is swallowed: the iteration goes on
after_empty_goes_on(pc) == IF pc = "get1" THEN "get2" ELSE "run"

\* lines 67-68, except Empty: continue: back to the loop test
after_empty(pc) == "run"

\* the composite built from the first frame alone
composite_of_first(f1, f2) == [ch |-> 3, a |-> f1, b |-> f1]

\* lines 62-66: mix_columns(f1, f2), QImage(...).copy(), mixed_frame_ready.emit
composite(f1, f2) == [ch |-> 3, a |-> f1, b |-> f2]

\* f1 = self.q1.get(timeout=1) returns a frame
MixGet1(t) ==
    /\ Kind(t) = 3 /\ tpc[t] = "get1"
    /\ q1 # <<>>
    /\ held' = [held EXCEPT ![t] = queue_get(q1).item]
    /\ q1' = queue_get(q1).q
    /\ tpc' = [tpc EXCEPT ![t] = "get2"]
    /\ taken1' = taken1 + 1
    /\ UNCHANGED <<guivars, q2, events, tkind, trun, tpath, cap, nemit, outcome,
                   mixvars, chanvars, taken2, nmixed>>

\* f1 = self.q1.get(timeout=1) raises Empty: continue
MixTimeout1(t) ==
    /\ Kind(t) = 3 /\ tpc[t] = "get1"
    /\ get_raises_empty(q1)
    /\ tpc' = [tpc EXCEPT ![t] = after_empty("get1")]
    /\ outcome' = [outcome EXCEPT ![t] = "empty1"]
    /\ UNCHANGED <<guivars, q1, q2, events, tkind, trun, tpath, cap, held, nemit,
                   mixvars, chanvars, cntvars>>

\* f2 = self.q2.get(timeout=1) returns a frame; lines 60-66
MixGet2(t) ==
    /\ Kind(t) = 3 /\ tpc[t] = "get2"
    /\ q2 # <<>>
    /\ q2' = queue_get(q2).q
    /\ held' = [held EXCEPT ![t] = NoFrame]
    /\ tpc' = [tpc EXCEPT ![t] = "run"]
    /\ IF shape_differs(held[t], queue_get(q2).item)
       THEN /\ outcome' = [outcome EXCEPT ![t] = "skipped"]
            /\ UNCHANGED <<events, nmixed>>
       ELSE /\ outcome' = [outcome EXCEPT ![t] = "emitted"]
            /\ events' = Append(events, composite(held[t], queue_get(q2).item))
            /\ nmixed' = nmixed + 1
    /\ taken2' = taken2 + 1
    /\ UNCHANGED <<guivars, q1, tkind, trun, tpath, cap, nemit, mixvars, chanvars,
                   taken1>>

\* f2 = self.q2.get(timeout=1) raises Empty: continue, f1 is dropped
MixTimeout2(t) ==
    /\ Kind(t) = 3 /\ tpc[t] = "get2"
    /\ get_raises_empty(q2)
    /\ held' = [held EXCEPT ![t] = NoFrame]
    /\ tpc' = [tpc EXCEPT ![t] = after_empty("get2")]
    /\ outcome' = [outcome EXCEPT ![t] = "empty2"]
    /\ UNCHANGED <<guivars, q1, q2, events, tkind, trun, tpath, cap, nemit,
                   mixvars, chanvars, cntvars>>

\* ------------------------------------------------------------- MainWindow
Ref(j) == IF j = 1 THEN decoder1 ELSE IF j = 2 THEN decoder2 ELSE mixer

StagePc(j) == <<"wait1", "wait2", "wait3", "ret">>[j]

\* stop_all without its third `if`: the mixer is never stopped
NextStage_nomixer(k) ==
    IF k <= 1 /\ decoder1 # 0 THEN 1
    ELSE IF k <= 2 /\ decoder2 # 0 THEN 2
    ELSE 4

\* stop_all from its k-th `if` on: the first reference that is set, 4 = none
NextStage(k) ==
    IF k <= 1 /\ decoder1 # 0 THEN 1
    ELSE IF k <= 2 /\ decoder2 # 0 THEN 2
    ELSE IF k <= 3 /\ mixer # 0 THEN 3
    ELSE 4

\* stop() that returns without waiting for the thread
wait_nojoin(t) == TRUE

\* QThread.wait(): returns once run() has returned
wait(t) == tpc[t] = "done"

\* start_mixing keeping the running session: the stop_all call left out
start_entry_nostop(k) == 4

\* start_mixing line 144: self.stop_all(), entered at its first `if`
start_entry(k) == NextStage(k)

\* deleteLater() / the last reference dropped: a thread object whose run() has
\* returned is destroyed, one still running lives on until it returns
Dispose(f, t, blank) == [u \in TIDs |-> IF u = t /\ tpc[t] = "done" THEN blank ELSE f[u]]

\* run stop_all up to its next blocking wait: self.running = False; quit(); wait()
EnterStop(j, run) ==
    /\ mpc' = StagePc(j)
    /\ trun' = IF j <= 3 THEN [run EXCEPT ![Ref(j)] = FALSE] ELSE run

\* select_video1: the dialog returns p (NoPath when cancelled)
SelectVideo1(P) ==
    /\ mpc = "idle"
    /\ \E p \in P \cup {NoPath} : path1' = IF p # NoPath THEN p ELSE path1
    /\ UNCHANGED <<path2, decoder1, decoder2, mixer, label, mpc, mop,
                   thrvars, q1, q2, events, mixvars, chanvars, cntvars>>

\* select_video2
SelectVideo2(P) ==
    /\ mpc = "idle"
    /\ \E p \in P \cup {NoPath} : path2' = IF p # NoPath THEN p ELSE path2
    /\ UNCHANGED <<path1, decoder1, decoder2, mixer, label, mpc, mop,
                   thrvars, q1, q2, events, mixvars, chanvars, cntvars>>

\* the guard written with `and`: returns only when both paths are unset
paths_unset_both(p1, p2) == p1 = NoPath /\ p2 = NoPath

\* line 140: not self.path1 or not self.path2
paths_unset(p1, p2) == p1 = NoPath \/ p2 = NoPath

\* start_mixing, lines 140-144: return when a path is unset, else stop_all()
StartMixing ==
    /\ mpc = "idle"
    /\ IF paths_unset(path1, path2)
       THEN UNCHANGED <<mpc, mop, trun>>
       ELSE /\ mop' = "start"
            /\ EnterStop(start_entry(1), trun)
    /\ UNCHANGED <<path1, path2, decoder1, decoder2, mixer, label,
                   tkind, tpc, tpath, cap, held, nemit, outcome, q1, q2, events,
                   mixvars, chanvars, cntvars>>

\* the Stop menu action: stop_all()
StopAll ==
    /\ mpc = "idle"
    /\ mop' = "stop"
    /\ EnterStop(NextStage(1), trun)
    /\ UNCHANGED <<path1, path2, decoder1, decoder2, mixer, label,
                   tkind, tpc, tpath, cap, held, nemit, outcome, q1, q2, events,
                   mixvars, chanvars, cntvars>>

\* closeEvent: stop_all(), then event.accept()
CloseEvent ==
    /\ mpc = "idle"
    /\ mop' = "close"
    /\ EnterStop(NextStage(1), trun)
    /\ UNCHANGED <<path1, path2, decoder1, decoder2, mixer, label,
                   tkind, tpc, tpath, cap, held, nemit, outcome, q1, q2, events,
                   mixvars, chanvars, cntvars>>

\* decoder1.stop() returns; deleteLater(); self.decoder1 = None; next `if`
JoinDecoder1 ==
    /\ mpc = "wait1"
    /\ wait(decoder1)
    /\ decoder1' = 0
    /\ tkind' = Dispose(tkind, decoder1, 0)
    /\ tpc' = Dispose(tpc, decoder1, "new")
    /\ tpath' = Dispose(tpath, decoder1, NoPath)
    /\ outcome' = Dispose(outcome, decoder1, "none")
    /\ EnterStop(NextStage(2), Dispose(trun, decoder1, FALSE))
    /\ UNCHANGED <<path1, path2, decoder2, mixer, label, mop, cap, held, nemit,
                   q1, q2, events, mixvars, chanvars, cntvars>>

\* decoder2.stop() returns; deleteLater(); self.decoder2 = None; next `if`
JoinDecoder2 ==
    /\ mpc = "wait2"
    /\ wait(decoder2)
    /\ decoder2' = 0
    /\ tkind' = Dispose(tkind, decoder2, 0)
    /\ tpc' = Dispose(tpc, decoder2, "new")
    /\ tpath' = Dispose(tpath, decoder2, NoPath)
    /\ outcome' = Dispose(outcome, decoder2, "none")
    /\ EnterStop(NextStage(3), Dispose(trun, decoder2, FALSE))
    /\ UNCHANGED <<path1, path2, decoder1, mixer, label, mop, cap, held, nemit,
                   q1, q2, events, mixvars, chanvars, cntvars>>

\* mixer.stop() returns; self.mixer = None; stop_all returns
JoinMixer ==
    /\ mpc = "wait3"
    /\ wait(mixer)
    /\ mixer' = 0
    /\ tkind' = Dispose(tkind, mixer, 0)
    /\ tpc' = Dispose(tpc, mixer, "new")
    /\ outcome' = Dispose(outcome, mixer, "none")
    /\ trun' = Dispose(trun, mixer, FALSE)
    /\ mpc' = "ret"
    /\ UNCHANGED <<path1, path2, decoder1, decoder2, label, mop, tpath, cap,
                   held, nemit, q1, q2, events, mixvars, chanvars, cntvars>>

\* stop_all has returned to the Stop menu action
StopReturn ==
    /\ mpc = "ret" /\ mop = "stop"
    /\ mpc' = "idle" /\ mop' = "none"
    /\ UNCHANGED <<path1, path2, decoder1, decoder2, mixer, label,
                   thrvars, q1, q2, events, mixvars, chanvars, cntvars>>

\* stop_all has returned to closeEvent: event.accept(), the window closes and
\* control goes back to the event loop, which still runs the slot calls
\* queued before app.exec() returns
CloseReturn ==
    /\ mpc = "ret" /\ mop = "close"
    /\ mpc' = "closed" /\ mop' = "none"
    /\ UNCHANGED <<path1, path2, decoder1, decoder2, mixer, label,
                   thrvars, q1, q2, events, mixvars, chanvars, cntvars>>

\* thread objects nothing refers to and no thread runs: free to be reused
FreeThreads ==
    {t \in TIDs : tpc[t] \in {"new", "done"} /\ t \notin {decoder1, decoder2, mixer}}

Lowest(S) == CHOOSE t \in S : \A u \in S : t <= u

\* start_mixing, lines 147-159: create, connect and start the three threads
StartCreate ==
    /\ mpc = "ret" /\ mop = "start"
    /\ Cardinality(FreeThreads) >= 3
    /\ LET d1 == Lowest(FreeThreads)
           d2 == Lowest(FreeThreads \ {d1})
           mx == Lowest(FreeThreads \ {d1, d2})
           new == {d1, d2, mx}
       IN  /\ decoder1' = d1 /\ decoder2' = d2 /\ mixer' = mx
           /\ tkind' = [tkind EXCEPT ![d1] = 1, ![d2] = 2, ![mx] = 3]
           /\ tpc' = [t \in TIDs |-> IF t \in new THEN "run" ELSE tpc[t]]
           /\ trun' = [t \in TIDs |-> IF t \in new THEN TRUE ELSE trun[t]]
           /\ tpath' = [tpath EXCEPT ![d1] = path1, ![d2] = path2, ![mx] = NoPath]
           /\ cap' = [t \in TIDs |-> IF t \in new THEN NoCap ELSE cap[t]]
           /\ held' = [t \in TIDs |-> IF t \in new THEN NoFrame ELSE held[t]]
           /\ outcome' = [t \in TIDs |-> IF t \in new THEN "none" ELSE outcome[t]]
    /\ mpc' = "idle" /\ mop' = "none"
    /\ UNCHANGED <<path1, path2, label, nemit, q1, q2, events, mixvars, chanvars, cntvars>>

\* the GUI thread is in the event loop of app.exec(), not inside a handler:
\* before any window event, and after closeEvent has returned
loop_runs == mpc \in {"idle", "closed"}

\* the GUI event loop runs a queued frame_ready delivery: safe_put(q, f)
DeliverFrame ==
    /\ loop_runs
    /\ events # <<>>
    /\ Head(events).ch \in {1, 2}
    /\ LET e == Head(events)
       IN  IF e.ch = 1
           THEN /\ put_returns(q1)
                /\ q1' = safe_put(q1, e.a)
                /\ UNCHANGED q2
           ELSE /\ put_returns(q2)
                /\ q2' = safe_put(q2, e.a)
                /\ UNCHANGED q1
    /\ events' = Tail(events)
    /\ UNCHANGED <<guivars, thrvars, mixvars, chanvars, cntvars>>

\* the GUI event loop runs a queued mixed_frame_ready delivery: update_display
DeliverImage ==
    /\ loop_runs
    /\ events # <<>>
    /\ Head(events).ch = 3
    /\ label' = [a |-> Head(events).a, b |-> Head(events).b]
    /\ events' = Tail(events)
    /\ UNCHANGED <<path1, path2, decoder1, decoder2, mixer, mpc, mop,
                   thrvars, q1, q2, mixvars, chanvars, cntvars>>

\* ------------------------------------------------------------ full model
DecoderStep(budget) ==
    \E t \in TIDs : DecOpen(t) \/ DecExit(t) \/ DecRead(t, budget) \/ DecEmit(t)

MixerStep ==
    \E t \in TIDs :
        \/ MixExit(t) \/ MixLoop(t)
        \/ MixGet1(t) \/ MixTimeout1(t)
        \/ MixGet2(t) \/ MixTimeout2(t)

Teardown ==
    \/ JoinDecoder1 \/ JoinDecoder2 \/ JoinMixer
    \/ StopReturn \/ CloseReturn

\* the files offered for video 1 and for video 2 in the full model
Picks1 == {"a", "missing"}
Picks2 == {"a", "b"}

Next ==
    \/ SelectVideo1(Picks1) \/ SelectVideo2(Picks2)
    \/ StartMixing \/ StartCreate
    \/ StopAll \/ CloseEvent \/ Teardown
    \/ DeliverFrame \/ DeliverImage
    \/ DecoderStep(MaxEmit) \/ MixerStep

Spec == Init /\ [][Next]_vars

\* ----------------------------------------------- fair thread scheduling
\* the GUI's operations with the files P1, P2 on offer, and the threads
Run(P1, P2, budget) ==
    \/ SelectVideo1(P1) \/ SelectVideo2(P2)
    \/ StartMixing \/ StartCreate
    \/ StopAll \/ CloseEvent \/ Teardown
    \/ DeliverFrame \/ DeliverImage
    \/ DecoderStep(budget) \/ MixerStep

\* one step of the run() of thread t
ThreadStep(t, budget) ==
    \/ DecOpen(t) \/ DecExit(t) \/ DecRead(t, budget) \/ DecEmit(t)
    \/ MixExit(t) \/ MixLoop(t)
    \/ MixGet1(t) \/ MixTimeout1(t)
    \/ MixGet2(t) \/ MixTimeout2(t)

NextStop == Run({"a"}, {"a"}, MaxEmit)

\* every started thread keeps being scheduled, and a wait() whose thread has
\* finished returns
FairStop ==
    /\ \A t \in TIDs : WF_vars(ThreadStep(t, MaxEmit))
    /\ WF_vars(Teardown)

SpecStop == Init /\ [][NextStop]_vars /\ FairStop

\* ------------------------------------------------- troublesome sources
\* video 2 is a file that reports no frame rate ("z") or one that is removed
\* while it plays ("gone")
NextEnv == Run({"a"}, {"z", "gone"}, MaxEmit)

SpecEnv == Init /\ [][NextEnv]_vars

\* ------------------------------------- a session that is never stopped
\* The state start_mixing leaves with both videos the one-frame file "s":
\* both sources open, their frames have the same shape.
InitLive ==
    /\ path1 = "s" /\ path2 = "s"
    /\ decoder1 = 1 /\ decoder2 = 2 /\ mixer = 3
    /\ q1 = <<>> /\ q2 = <<>>
    /\ label = NoImage
    /\ mpc = "idle" /\ mop = "none"
    /\ events = <<>>
    /\ tkind = [t \in TIDs |-> IF t <= 3 THEN t ELSE 0]
    /\ tpc = [t \in TIDs |-> IF t <= 3 THEN "run" ELSE "new"]
    /\ trun = [t \in TIDs |-> t <= 3]
    /\ tpath = [t \in TIDs |-> IF t <= 2 THEN "s" ELSE NoPath]
    /\ cap = [t \in TIDs |-> NoCap]
    /\ held = [t \in TIDs |-> NoFrame]
    /\ nemit = 0
    /\ outcome = [t \in TIDs |-> "none"]
    /\ InitMixIdle /\ InitChanIdle /\ InitCount

\* the threads and the GUI event loop; no stop, no close
NextLive ==
    \/ DeliverFrame \/ DeliverImage
    \/ \E t \in TIDs : DecOpen(t) \/ DecRead(t, MaxFlowEmit) \/ DecEmit(t)
    \/ \E t \in TIDs :
           \/ MixLoop(t)
           \/ MixGet1(t) \/ MixTimeout1(t)
           \/ MixGet2(t) \/ MixTimeout2(t)

\* the two decoders and the mixer keep being scheduled, and the GUI event
\* loop keeps running the deliveries queued to it
FairLive ==
    /\ \A t \in TIDs : WF_vars(ThreadStep(t, MaxFlowEmit))
    /\ WF_vars(DeliverFrame) /\ WF_vars(DeliverImage)

SpecLive == InitLive /\ [][NextLive]_vars /\ FairLive

\* ------------------------------------------- one session, one live source
\* The state start_mixing leaves with video 1 a file that cannot be opened and
\* video 2 the file "a": decoder 2 alone produces, the mixer waits on channel 1.
InitFlow ==
    /\ path1 = "missing" /\ path2 = "a"
    /\ decoder1 = 1 /\ decoder2 = 2 /\ mixer = 3
    /\ q1 = <<>> /\ q2 = <<>>
    /\ label = NoImage
    /\ mpc = "idle" /\ mop = "none"
    /\ events = <<>>
    /\ tkind = [t \in TIDs |-> IF t <= 3 THEN t ELSE 0]
    /\ tpc = [t \in TIDs |-> IF t <= 3 THEN "run" ELSE "new"]
    /\ trun = [t \in TIDs |-> t <= 3]
    /\ tpath = [t \in TIDs |-> IF t = 1 THEN "missing" ELSE IF t = 2 THEN "a" ELSE NoPath]
    /\ cap = [t \in TIDs |-> NoCap]
    /\ held = [t \in TIDs |-> NoFrame]
    /\ nemit = 0
    /\ outcome = [t \in TIDs |-> "none"]
    /\ InitMixIdle /\ InitChanIdle /\ InitCount

NextFlow ==
    \/ DeliverFrame
    \/ DecoderStep(MaxFlowEmit)
    \/ \E t \in TIDs : MixLoop(t) \/ MixTimeout1(t)

SpecFlow == InitFlow /\ [][NextFlow]_vars

\* ------------------------------------------------------- channel harness
\* the n-th frame handed to the channel
TestFrame(n) == [src |-> "a", idx |-> n]

\* safe_put(q1, frame) called with the next frame
ChanPut ==
    /\ hpush < MaxPush
    /\ put_returns(q1)
    /\ q1' = safe_put(q1, TestFrame(hpush + 1))
    /\ hpush' = hpush + 1
    /\ hacc' = IF Len(q1) < QueueMax THEN Append(hacc, TestFrame(hpush + 1)) ELSE hacc
    /\ UNCHANGED <<guivars, thrvars, q2, events, mixvars, hpop, hfirst, cntvars>>

\* q1.get(timeout=1) returning a frame
ChanGet ==
    /\ q1 # <<>>
    /\ hpop' = Append(hpop, queue_get(q1).item)
    /\ q1' = queue_get(q1).q
    /\ hfirst' = IF hpop = <<>> THEN hpush ELSE hfirst
    /\ UNCHANGED <<guivars, thrvars, q2, events, mixvars, hpush, hacc, cntvars>>

NextChan == ChanPut \/ ChanGet

SpecChan == Init /\ [][NextChan]_vars

\* --------------------------------------------------- mix_columns harness
InitMix ==
    /\ InitGui /\ InitThreads /\ InitChanIdle /\ InitCount
    /\ \E s \in Shapes : mA \in PixelFrames(s) /\ mB \in PixelFrames(s)
    /\ mOut = NoPixels

Mixed == mOut.shape # NoPixels.shape

\* mixed = self.mix_columns(f1, f2)
MixColumns ==
    /\ ~Mixed
    /\ mOut' = mix_columns(mA, mB).ret
    /\ mA' = mix_columns(mA, mB).f1
    /\ mB' = mB
    /\ UNCHANGED <<guivars, thrvars, q1, q2, events, chanvars, cntvars>>

NextMix == MixColumns

SpecMix == InitMix /\ [][NextMix]_vars

\* ================================================================ claims

\* C1: for same-sized frames A and B, mix_columns returns a frame of the same
\* size whose even columns are B's and whose odd columns are A's, at every row
\* and channel, and leaves A as it was.
C1_MixColumnsInterleaves ==
    [][(~Mixed /\ Mixed') =>
          /\ mA' = mA
          /\ mOut'.shape = mA.shape
          /\ DOMAIN mOut'.px = Index(mA.shape[1], mA.shape[2], mA.shape[3])
          /\ \A r \in 0 .. mA.shape[1] - 1, c \in 0 .. mA.shape[2] - 1,
                k \in 0 .. mA.shape[3] - 1 :
                mOut'.px[<<r, c, k>>] =
                    IF c % 2 = 0 THEN mB.px[<<r, c, k>>] ELSE mA.px[<<r, c, k>>]]_vars

\* a three-column pair has been mixed and the result is neither input
C1_Witness ==
    /\ Mixed
    /\ mOut.shape[2] = 3
    /\ mOut # mA /\ mOut # mB

\* C2: a channel never holds more than 10 frames and always holds exactly the
\* accepted, not yet popped frames in push order; a push on a full channel
\* drops the incoming frame, so 12 pushes and then 10 pops give frames 1..10.
C2_ChannelDropsNewest ==
    /\ Len(q1) <= QueueMax
    /\ Len(hpop) <= Len(hacc)
    /\ hpop = SubSeq(hacc, 1, Len(hpop))
    /\ q1 = SubSeq(hacc, Len(hpop) + 1, Len(hacc))
    /\ (hpop # <<>> /\ hfirst >= QueueMax) =>
          \A i \in 1 .. Len(hpop) : i <= QueueMax => hpop[i] = TestFrame(i)
    /\ (hfirst = 12 /\ hpush = 12 /\ Len(hpop) = QueueMax) => q1 = <<>>

\* 12 frames were pushed before the first pop, and 10 pops followed
C2_Witness ==
    /\ hfirst = 12 /\ hpush = 12
    /\ Len(hpop) = QueueMax

\* a step in which a thread emits mixed_frame_ready
EmitsImage ==
    /\ Len(events') = Len(events) + 1
    /\ events'[Len(events')].ch = 3

\* C3: once stop_all has returned (the mixer reference is cleared), no
\* Composite Frame is emitted: every emission is made by the mixer the
\* controller still refers to, in its own loop.
C3_NoEmitAfterStop ==
    [][EmitsImage =>
          /\ mixer # 0
          /\ tpc[mixer] = "get2" /\ tpc'[mixer] = "run"]_vars

\* stop_all has returned to the Stop action while channel 1 still holds a
\* frame and emitted frames are still waiting to be delivered
C3_Witness ==
    /\ mpc = "ret" /\ mop = "stop"
    /\ q1 # <<>>
    /\ events # <<>>

\* C4: when stop_all returns (from Stop, from closeEvent or from start_mixing)
\* no thread is running and decoder1, decoder2 and mixer are all cleared.
C4_TeardownJoinsAll ==
    mpc = "ret" =>
        /\ decoder1 = 0 /\ decoder2 = 0 /\ mixer = 0
        /\ \A t \in TIDs : ~Alive(t)

\* closeEvent's stop_all has returned after decoders had emitted frames
C4_Witness ==
    /\ mpc = "ret" /\ mop = "close"
    /\ nemit > 0
    /\ events # <<>>

\* C5: replacing a source is a teardown: when select_video1 / select_video2
\* has stored a new path, no thread of the session is running any more.
C5_ReplaceTearsDown ==
    [][(path1' # path1 \/ path2' # path2) => \A t \in TIDs : ~Alive(t)']_vars

\* C6: at most two decoder threads and one mixer thread are alive, and every
\* live thread is one the controller refers to.
C6_OneSession ==
    /\ Cardinality({t \in TIDs : Alive(t) /\ Kind(t) \in {1, 2}}) <= 2
    /\ Cardinality({t \in TIDs : Alive(t) /\ Kind(t) = 3}) <= 1
    /\ \A t \in TIDs : Alive(t) => t \in {decoder1, decoder2, mixer}

\* start_mixing was invoked while Running: it is inside stop_all, waiting for
\* decoder 1 of the running session, whose mixer is still alive
C6_Witness ==
    /\ mpc = "wait1" /\ mop = "start"
    /\ mixer # 0 /\ Alive(mixer)

\* C7: the first frame a decoder emits after an end-of-stream restart is
\* frame 0 of its file.
C7_WrapEmitsFirstFrame ==
    \A t \in TIDs :
        (tpc[t] = "emit" /\ outcome[t] = "restart") => held[t].idx = 0

\* C8: a pair of frames of different sizes is dropped silently: both frames
\* are consumed, nothing is emitted and the mixer goes on with its loop.
C8_MismatchSkipped ==
    [][\A t \in TIDs :
          (/\ tpc[t] = "get2" /\ tpc'[t] # "get2"
           /\ q2 # <<>>
           /\ Shape(held[t].src) # Shape(Head(q2).src)) =>
              /\ events' = events
              /\ q2' = Tail(q2) /\ q1' = q1
              /\ held'[t] = NoFrame
              /\ tpc'[t] = "run" /\ trun'[t] = trun[t]]_vars

\* a mixer has dropped a mismatched pair and is back at its loop test
C8_Witness ==
    \E t \in TIDs : Kind(t) = 3 /\ tpc[t] = "run" /\ outcome[t] = "skipped"

\* C9: no producer waits for channel space: a decoder at its emit statement
\* can always take it, and the queued safe_put can always run in the idle GUI
\* thread, also when the channel holds 10 frames.
C9_ProducerNeverBlocks ==
    /\ \A t \in TIDs : tpc[t] = "emit" => ENABLED DecEmit(t)
    /\ (mpc = "idle" /\ events # <<>>) => ENABLED DeliverFrame

\* channel 2 is full, the mixer has never consumed, every emitted frame has been
\* handed to safe_put (so one was dropped) and the decoder is at its loop again
C9_Witness ==
    /\ Len(q2) = QueueMax
    /\ nemit > QueueMax
    /\ events = <<>>
    /\ tpc[decoder2] = "loop"
    /\ outcome[mixer] \in {"none", "empty1"}

\* C10: start_mixing with a source that cannot be opened leaves the controller
\* Idle: no session whose source could not be opened is ever Running, with
\* its references set.
C10_OpenFailureStaysIdle ==
    mpc = "idle" =>
        /\ decoder1 # 0 => Openable(tpath[decoder1])
        /\ decoder2 # 0 => Openable(tpath[decoder2])

\* C11: start_mixing with a path unset changes nothing: while either path is
\* unset no step enters the start operation or changes a thread, a reference,
\* a channel or the display, and threads are only ever created with both
\* paths set.
C11_StartNeedsBothPaths ==
    [][/\ (path1 = NoPath \/ path2 = NoPath) =>
              /\ mop' # "start"
              /\ UNCHANGED <<decoder1, decoder2, mixer, thrvars, q1, q2,
                             events, label>>
       /\ (\E t \in TIDs : tpc[t] = "new" /\ tpc'[t] = "run") =>
              (path1 # NoPath /\ path2 # NoPath)]_vars

\* video 1 is chosen, video 2 is not, and the Play action can be taken
C11_Witness ==
    /\ path1 # NoPath /\ path2 = NoPath
    /\ mpc = "idle" /\ ENABLED StartMixing

\* C12: under fair scheduling of the threads, a stop_all that is waiting for a
\* thread to finish always gets to its return.
C12_StopAllReturns ==
    (mpc \in {"wait1", "wait2", "wait3"}) ~> (mpc = "ret")

\* stop_all waits for a mixer that is inside a channel get, its flag cleared
C12_Witness ==
    /\ mpc = "wait3" /\ mixer # 0
    /\ tpc[mixer] \in {"get1", "get2"} /\ ~trun[mixer]

\* C13: a decoder whose opened source reports frame rate 0 keeps running for
\* as long as its running flag is set: the missing frame rate does not end it.
C13_ZeroFpsKeepsDecoding ==
    \A t \in TIDs :
        (Kind(t) \in {1, 2} /\ Openable(tpath[t]) /\ Fps(tpath[t]) = 0 /\ trun[t])
            => tpc[t] # "done"

\* C14: a decoder whose source was opened leaves its loop only after stop has
\* cleared its running flag, whatever reads and reopens fail.
C14_ReadFailureNeverFatal ==
    \A t \in TIDs :
        (Kind(t) \in {1, 2} /\ Openable(tpath[t])
           /\ tpc[t] = "done" /\ outcome[t] = "returned")
            => ~trun[t]

\* C15: every composite the mixer emits is built from the frame it popped from
\* q1 earlier in the same iteration and the frame it pops from q2 in this
\* step; a get that times out emits nothing and goes back to the loop test,
\* and no frame is in hand when an iteration begins.
C15_NoPartialComposite ==
    [][/\ EmitsImage =>
              \E t \in TIDs :
                  /\ Kind(t) = 3 /\ tpc[t] = "get2" /\ tpc'[t] = "run"
                  /\ held[t] # NoFrame /\ q2 # <<>>
                  /\ events'[Len(events')] =
                         [ch |-> 3, a |-> held[t], b |-> Head(q2)]
                  /\ q2' = Tail(q2)
       /\ \A t \in TIDs : Kind(t) = 3 =>
              /\ tpc[t] \in {"run", "get1"} => held[t] = NoFrame
              /\ (tpc[t] = "get1" /\ tpc'[t] = "get2") =>
                     (q1 # <<>> /\ held'[t] = Head(q1) /\ q1' = Tail(q1))
              /\ (tpc[t] = "get1" /\ tpc'[t] # "get1" /\ q1 = <<>>) =>
                     (events' = events /\ tpc'[t] = "run")
              /\ (tpc[t] = "get2" /\ tpc'[t] # "get2" /\ q2 = <<>>) =>
                     (events' = events /\ tpc'[t] = "run")]_vars

\* a composite of two different frames is queued for the display, and the
\* mixer has since had an iteration that timed out on q2
C15_Witness ==
    /\ \E i \in 1 .. Len(events) :
           events[i].ch = 3 /\ events[i].a # events[i].b
    /\ \E t \in TIDs : Kind(t) = 3 /\ outcome[t] = "empty2"

\* C16: in a running session that is never stopped, whose sources both opened
\* and have the same frame size, the mixer emits a composite again and again.
C16_CompositesForever ==
    []<>(\E t \in TIDs : Kind(t) = 3 /\ outcome[t] = "emitted")

\* C17: whenever start_mixing creates the threads of a session, both channels
\* are empty.
C17_ChannelsEmptyAtStart ==
    (mpc = "ret" /\ mop = "start") => (q1 = <<>> /\ q2 = <<>>)

\* C18: update_display runs only while a session exists: once stop_all has
\* returned and cleared the references, no composite of the stopped session
\* is delivered to the display.
C18_NoDisplayAfterStop ==
    [][(label' # label) => (mixer # 0 /\ mixer' # 0)]_vars

\* C19: a frame leaves its channel when it is popped and never comes back: a
\* get removes exactly the oldest frame, no mixer step adds a frame to a
\* channel, and at the end of an iteration (composite, mismatch or timeout on
\* q2) the frame taken from q1 is no longer in hand; one iteration queues at
\* most one composite.
C19_FrameUsedAtMostOnce ==
    [][\A t \in TIDs : (Kind(t) = 3 /\ tpc'[t] # tpc[t]) =>
           /\ Len(q1') <= Len(q1) /\ Len(q2') <= Len(q2)
           /\ (tpc[t] = "get1" /\ tpc'[t] = "get2") =>
                  (q1' = Tail(q1) /\ q2' = q2)
           /\ (tpc[t] = "get2" /\ tpc'[t] = "run") =>
                  /\ held'[t] = NoFrame
                  /\ q1' = q1
                  /\ q2' = IF q2 = <<>> THEN q2 ELSE Tail(q2)
                  /\ Len(events') <= Len(events) + 1
                  /\ (q2 = <<>> \/ shape_differs(held[t], Head(q2))) =>
                         events' = events]_vars

\* an iteration ended on a q2 timeout: its q1 frame was taken and is gone
C19_Witness ==
    \E t \in TIDs :
        /\ Kind(t) = 3 /\ outcome[t] = "empty2" /\ tpc[t] = "run"
        /\ held[t] = NoFrame /\ taken1 > taken2

\* C20: the mixer takes from q2 only after it has taken from q1 in the same
\* iteration, so at all times it has taken no more frames from q2 than from
\* q1 and has emitted no more composites than it has taken frames from q2.
C20_PopOrder ==
    /\ taken2 <= taken1
    /\ nmixed <= taken2
    /\ \A t \in TIDs : (Kind(t) = 3 /\ tpc[t] = "get2") =>
           (held[t] # NoFrame /\ taken2 < taken1)

\* the mixer has paired a frame of q1 with a frame of q2 into a composite
C20_Witness ==
    taken1 >= 1 /\ taken2 >= 1 /\ nmixed >= 1

====
